---- MODULE Spec2Model ----
(***************************************************************************)
(* Model of strategy/strategy.py: the Strategy class (belief grid over the *)
(* enemy board, follow-up stack of candidate cells, remaining-fleet        *)
(* mapping) and its operations get_next_attack, register_attack,           *)
(* all_ships_sunk, get_enemy_board and get_remaining_ships.  A coordinate  *)
(* is <<x, y>> with x the column and y the row; the board is indexed       *)
(* enemy_board[y][x] as in the source.  caller records what the code       *)
(* outside the class holds: the objects it was handed and whether they are *)
(* the tracker's own objects.                                              *)
(***************************************************************************)
EXTENDS Integers, Sequences, FiniteSets, TLC

VARIABLES rows, cols, ships_dict, enemy_board, hit_stack, registered, last, caller

vars == <<rows, cols, ships_dict, enemy_board, hit_stack, registered, last, caller>>

(* ------------------------------- bounds -------------------------------- *)

\* register_attack calls explored on a board of at most SmallArea cells
MaxRegister == 2

\* register_attack calls explored on a larger board
MaxRegisterBig == 1

\* boards of at most this many cells get the MaxRegister budget
SmallArea == 9

\* the constructor arguments <<rows, cols, ships_dict>> explored; ships_dict
\* maps ship_id -> count
Configs ==
    { <<2, 3, (1 :> 1)>>,
      <<2, 3, (1 :> 1) @@ (3 :> 2)>>,
      <<3, 3, (1 :> 1)>>,
      <<5, 5, (1 :> 1) @@ (3 :> 2)>> }

RegisterBudget(r, c) == IF r * c <= SmallArea THEN MaxRegister ELSE MaxRegisterBig

(* ------------------------------ __init__ ------------------------------- *)

\* variant: the offsets listed right, down, left, up
directions_RightFirst == << <<1, 0>>, <<0, 1>>, <<-1, 0>>, <<0, -1>> >>

directions == << <<0, 1>>, <<1, 0>>, <<0, -1>>, <<-1, 0>> >>

\* what the caller holds of an object of the tracker: nothing, the object
\* itself (every write through it is a write to the tracker's state), or a
\* copy with a value of its own; from names the call that set the handle up
NoHandle == [kind |-> "none"]

Alias(call) == [kind |-> "alias", from |-> call]

CopyOf(call, v) == [kind |-> "copy", from |-> call, val |-> v]

\* "self.ships_dict = ships_dict" stores the caller's dict itself, so the
\* caller starts with an alias of the fleet mapping
Init ==
    /\ \E c \in Configs : rows = c[1] /\ cols = c[2] /\ ships_dict = c[3]
    /\ enemy_board = [y \in 0 .. rows - 1 |-> [x \in 0 .. cols - 1 |-> "?"]]
    /\ hit_stack = << >>
    /\ registered = 0
    /\ last = [op |-> "__init__", args |-> << >>, ret |-> << >>, via |-> "none",
              raised |-> FALSE]
    /\ caller = [board |-> NoHandle, ships |-> Alias("__init__"), writes |-> 0]

(* ------------------------------ helpers -------------------------------- *)

\* the test 0 <= nx < self.cols and 0 <= ny < self.rows
InBounds(nx, ny) == 0 <= nx /\ nx < cols /\ 0 <= ny /\ ny < rows

\* variant: the indices swapped, board[x][y] = state
SetCell_Transposed(board, x, y, state) ==
    IF x \in DOMAIN board /\ y \in DOMAIN board[x]
    THEN [board EXCEPT ![x][y] = state]
    ELSE board

\* board with board[y][x] = state
SetCell(board, x, y, state) == [board EXCEPT ![y][x] = state]

(* --------------------------- get_next_attack ---------------------------- *)

\* the two "for y in range(rows): for x in range(cols)" scans, as one walk
\* over the row-major index i = y * cols + x; << >> models falling off the
\* end of the loops
RECURSIVE ScanFrom(_, _, _)
ScanFrom(board, i, parity_only) ==
    IF i >= rows * cols THEN << >>
    ELSE LET y == i \div cols
             x == i % cols
         IN  IF board[y][x] = "?" /\ (~parity_only \/ (x + y) % 2 = 0)
             THEN <<x, y>>
             ELSE ScanFrom(board, i + 1, parity_only)

\* variant: the first loop nest without the parity test
ScanParity_AnyParity(board) == ScanFrom(board, 0, FALSE)

\* the first loop nest: first '?' cell with (x + y) % 2 == 0
ScanParity(board) == ScanFrom(board, 0, TRUE)

\* variant: the second loop nest returning the last '?' cell it meets
ScanAny_Last(board) ==
    LET unknown == { i \in 0 .. rows * cols - 1 : board[i \div cols][i % cols] = "?" }
    IN  IF unknown = {} THEN << >>
        ELSE LET i == CHOOSE m \in unknown : \A n \in unknown : n <= m
             IN  <<i % cols, i \div cols>>

\* the second loop nest: first '?' cell
ScanAny(board) == ScanFrom(board, 0, FALSE)

\* variant: the test on the popped entry inverted
StackBranchReturns_Inverted(board, stack) ==
    /\ stack # << >>
    /\ LET top == stack[Len(stack)] IN board[top[2]][top[1]] # "?"

\* variant: the popped entry is returned without looking at its cell
StackBranchReturns_NoValidate(board, stack) == stack # << >>

\* whether the stack branch returns: the stack is non-empty and the popped
\* entry is still '?'
StackBranchReturns(board, stack) ==
    /\ stack # << >>
    /\ LET top == stack[Len(stack)] IN board[top[2]][top[1]] = "?"

\* the stack after "if self.hit_stack: x, y = self.hit_stack.pop()"
StackAfterPop(stack) ==
    IF stack # << >> THEN SubSeq(stack, 1, Len(stack) - 1) ELSE stack

\* variant: the cell returned is marked on the board before it is reported
get_next_attack_MarksCell ==
    LET stale_or_empty == ~StackBranchReturns(enemy_board, hit_stack)
        even == ScanParity(enemy_board)
        any  == ScanAny(enemy_board)
        via  == IF ~stale_or_empty THEN "stack"
                ELSE IF even # << >> THEN "parity"
                ELSE IF any # << >> THEN "any"
                ELSE "none"
        ret  == IF via = "stack" THEN hit_stack[Len(hit_stack)]
                ELSE IF via = "parity" THEN even
                ELSE any
    IN  /\ hit_stack' = StackAfterPop(hit_stack)
        /\ enemy_board' = IF ret = << >> THEN enemy_board
                          ELSE SetCell(enemy_board, ret[1], ret[2], "M")
        /\ last' = [op |-> "get_next_attack", args |-> << >>, ret |-> ret, via |-> via,
                    raised |-> FALSE]
        /\ UNCHANGED <<rows, cols, ships_dict, registered, caller>>

get_next_attack ==
    LET stale_or_empty == ~StackBranchReturns(enemy_board, hit_stack)
        even == ScanParity(enemy_board)
        any  == ScanAny(enemy_board)
        via  == IF ~stale_or_empty THEN "stack"
                ELSE IF even # << >> THEN "parity"
                ELSE IF any # << >> THEN "any"
                ELSE "none"
        ret  == IF via = "stack" THEN hit_stack[Len(hit_stack)]
                ELSE IF via = "parity" THEN even
                ELSE any
    IN  /\ hit_stack' = StackAfterPop(hit_stack)
        /\ last' = [op |-> "get_next_attack", args |-> << >>, ret |-> ret, via |-> via,
                    raised |-> FALSE]
        /\ UNCHANGED <<rows, cols, ships_dict, enemy_board, registered, caller>>

(* ------------------------- _add_adjacent_targets ------------------------ *)

RECURSIVE PushTargets(_, _, _, _, _)
PushTargets(board, stack, x, y, d) ==
    IF d > Len(directions) THEN stack
    ELSE LET nx == x + directions[d][1]
             ny == y + directions[d][2]
         IN  IF InBounds(nx, ny) /\ board[ny][nx] = "?"
             THEN PushTargets(board, Append(stack, <<nx, ny>>), x, y, d + 1)
             ELSE PushTargets(board, stack, x, y, d + 1)

_add_adjacent_targets(board, stack, x, y) == PushTargets(board, stack, x, y, 1)

(* ---------------------- _mark_surrounding_impossible -------------------- *)

\* in-bounds neighbours of <<x, y>> outside ship_tiles, in directions order
RECURSIVE NeighboursToCheck(_, _, _, _)
NeighboursToCheck(ship_tiles, x, y, d) ==
    IF d > Len(directions) THEN << >>
    ELSE LET nx == x + directions[d][1]
             ny == y + directions[d][2]
             rest == NeighboursToCheck(ship_tiles, x, y, d + 1)
         IN  IF InBounds(nx, ny) /\ <<nx, ny>> \notin ship_tiles
             THEN <<(<<nx, ny>>)>> \o rest
             ELSE rest

\* variant: the fill follows 'S' cells only
RECURSIVE FloodFill_SunkOnly(_, _, _)
FloodFill_SunkOnly(board, ship_tiles, to_check) ==
    IF to_check = << >> THEN ship_tiles
    ELSE LET c == to_check[Len(to_check)]
             popped == SubSeq(to_check, 1, Len(to_check) - 1)
         IN  IF c \in ship_tiles THEN FloodFill_SunkOnly(board, ship_tiles, popped)
             ELSE IF board[c[2]][c[1]] \in {"S"}
             THEN LET tiles == ship_tiles \cup {c}
                  IN  FloodFill_SunkOnly(board, tiles,
                                popped \o NeighboursToCheck(tiles, c[1], c[2], 1))
             ELSE FloodFill_SunkOnly(board, ship_tiles, popped)

\* the "while to_check" loop: to_check is a list used as a stack
RECURSIVE FloodFill(_, _, _)
FloodFill(board, ship_tiles, to_check) ==
    IF to_check = << >> THEN ship_tiles
    ELSE LET c == to_check[Len(to_check)]
             popped == SubSeq(to_check, 1, Len(to_check) - 1)
         IN  IF c \in ship_tiles THEN FloodFill(board, ship_tiles, popped)
             ELSE IF board[c[2]][c[1]] \in {"H", "S"}
             THEN LET tiles == ship_tiles \cup {c}
                  IN  FloodFill(board, tiles,
                                popped \o NeighboursToCheck(tiles, c[1], c[2], 1))
             ELSE FloodFill(board, ship_tiles, popped)

\* ship_tiles when the first loop ends
ShipTiles(board, x, y) == FloodFill(board, {}, <<(<<x, y>>)>>)

\* variant: the second loop without its break, walking the whole ray
MarkedCells_Ray(ship_tiles) ==
    { n \in (0 .. cols - 1) \X (0 .. rows - 1) :
        /\ n \notin ship_tiles
        /\ \E s \in ship_tiles : \E d \in 1 .. Len(directions) :
              \E k \in 1 .. (rows + cols) :
                  /\ n[1] = s[1] + k * directions[d][1]
                  /\ n[2] = s[2] + k * directions[d][2]
                  /\ \A j \in 1 .. k :
                        <<s[1] + j * directions[d][1],
                          s[2] + j * directions[d][2]>> \notin ship_tiles }

\* variant: the second loop without the "not in ship_tiles" test
MarkedCells_NoShipTest(ship_tiles) ==
    { n \in (0 .. cols - 1) \X (0 .. rows - 1) :
        \E s \in ship_tiles : \E d \in 1 .. Len(directions) :
            /\ n[1] = s[1] + directions[d][1]
            /\ n[2] = s[2] + directions[d][2] }

\* the cells the second loop writes: for every ship tile and direction the
\* one cell next to the tile (the while body ends in break), when it is
\* in bounds and not a ship tile
MarkedCells(ship_tiles) ==
    { n \in (0 .. cols - 1) \X (0 .. rows - 1) :
        /\ n \notin ship_tiles
        /\ \E s \in ship_tiles : \E d \in 1 .. Len(directions) :
              /\ n[1] = s[1] + directions[d][1]
              /\ n[2] = s[2] + directions[d][2] }

_mark_surrounding_impossible(board, x, y) ==
    LET marked == MarkedCells(ShipTiles(board, x, y))
    IN  [yy \in 0 .. rows - 1 |->
            [xx \in 0 .. cols - 1 |->
                IF <<xx, yy>> \in marked THEN "X" ELSE board[yy][xx]]]

(* --------------------------- _update_ships_dict ------------------------- *)

\* variant: the keys visited in descending order
RECURSIVE SortedKeys_Descending(_)
SortedKeys_Descending(keys) ==
    IF keys = {} THEN << >>
    ELSE LET m == CHOOSE k \in keys : \A j \in keys : k >= j
         IN  <<m>> \o SortedKeys_Descending(keys \ {m})

\* sorted(self.ships_dict.keys())
RECURSIVE SortedKeys(_)
SortedKeys(keys) ==
    IF keys = {} THEN << >>
    ELSE LET m == CHOOSE k \in keys : \A j \in keys : k <= j
         IN  <<m>> \o SortedKeys(keys \ {m})

\* variant: the loop without its break
RECURSIVE DecrementFirst_NoBreak(_, _, _)
DecrementFirst_NoBreak(d, ids, i) ==
    IF i > Len(ids) THEN d
    ELSE IF d[ids[i]] > 0
         THEN DecrementFirst_NoBreak([d EXCEPT ![ids[i]] = @ - 1], ids, i + 1)
    ELSE DecrementFirst_NoBreak(d, ids, i + 1)

RECURSIVE DecrementFirst(_, _, _)
DecrementFirst(d, ids, i) ==
    IF i > Len(ids) THEN d
    ELSE IF d[ids[i]] > 0 THEN [d EXCEPT ![ids[i]] = @ - 1]
    ELSE DecrementFirst(d, ids, i + 1)

_update_ships_dict(d) == DecrementFirst(d, SortedKeys(DOMAIN d), 1)

(* ---------------------------- register_attack --------------------------- *)

\* variant: is_sunk tested before is_hit
RegisterAttackBody_SunkFirst(x, y, is_hit, is_sunk) ==
    /\ registered' = registered + 1
    /\ IF is_sunk
       THEN /\ ships_dict' = _update_ships_dict(ships_dict)
            /\ enemy_board' =
                   _mark_surrounding_impossible(SetCell(enemy_board, x, y, "S"), x, y)
            /\ UNCHANGED hit_stack
       ELSE IF is_hit
       THEN /\ enemy_board' = SetCell(enemy_board, x, y, "H")
            /\ hit_stack' =
                   _add_adjacent_targets(SetCell(enemy_board, x, y, "H"), hit_stack, x, y)
            /\ UNCHANGED ships_dict
       ELSE /\ enemy_board' = SetCell(enemy_board, x, y, "M")
            /\ UNCHANGED <<hit_stack, ships_dict>>
    /\ last' = [op |-> "register_attack", args |-> <<x, y, is_hit, is_sunk>>,
                ret |-> << >>, via |-> "none", raised |-> FALSE]
    /\ UNCHANGED <<rows, cols, caller>>

\* the body of register_attack; registered counts the calls made.  No
\* statement of the body raises for in-bounds x, y.
RegisterAttackBody(x, y, is_hit, is_sunk) ==
    /\ registered' = registered + 1
    /\ IF is_hit
       THEN IF is_sunk
            THEN /\ ships_dict' = _update_ships_dict(ships_dict)
                 /\ enemy_board' =
                        _mark_surrounding_impossible(SetCell(enemy_board, x, y, "S"), x, y)
                 /\ UNCHANGED hit_stack
            ELSE /\ enemy_board' = SetCell(enemy_board, x, y, "H")
                 /\ hit_stack' =
                        _add_adjacent_targets(SetCell(enemy_board, x, y, "H"), hit_stack, x, y)
                 /\ UNCHANGED ships_dict
       ELSE /\ enemy_board' = SetCell(enemy_board, x, y, "M")
            /\ UNCHANGED <<hit_stack, ships_dict>>
    /\ last' = [op |-> "register_attack", args |-> <<x, y, is_hit, is_sunk>>,
                ret |-> << >>, via |-> "none", raised |-> FALSE]
    /\ UNCHANGED <<rows, cols, caller>>

\* register_attack called with any in-bounds cell, within the call budget
register_attack(x, y, is_hit, is_sunk) ==
    /\ registered < RegisterBudget(rows, cols)
    /\ RegisterAttackBody(x, y, is_hit, is_sunk)

(* ----------------------------- all_ships_sunk --------------------------- *)

\* variant: any(...) in place of all(...)
RECURSIVE AllZero_Any(_, _, _)
AllZero_Any(d, ids, i) ==
    IF i > Len(ids) THEN FALSE
    ELSE IF d[ids[i]] = 0 THEN TRUE
    ELSE AllZero_Any(d, ids, i + 1)

\* all(count == 0 for count in self.ships_dict.values())
RECURSIVE AllZero(_, _, _)
AllZero(d, ids, i) ==
    IF i > Len(ids) THEN TRUE
    ELSE IF d[ids[i]] = 0 THEN AllZero(d, ids, i + 1)
    ELSE FALSE

AllShipsSunkValue(d) == AllZero(d, SortedKeys(DOMAIN d), 1)

all_ships_sunk ==
    /\ last' = [op |-> "all_ships_sunk", args |-> << >>,
                ret |-> AllShipsSunkValue(ships_dict), via |-> "none",
                raised |-> FALSE]
    /\ UNCHANGED <<rows, cols, ships_dict, enemy_board, hit_stack, registered, caller>>

(* ------------------- get_enemy_board, get_remaining_ships --------------- *)

\* "return self.enemy_board": the list object of the tracker itself
ReturnedBoard == Alias("get_enemy_board")

\* "return self.ships_dict": the dict object of the tracker itself
ReturnedShips == Alias("get_remaining_ships")

get_enemy_board ==
    /\ caller' = [caller EXCEPT !.board = ReturnedBoard]
    /\ last' = [op |-> "get_enemy_board", args |-> << >>, ret |-> ReturnedBoard,
                via |-> "none", raised |-> FALSE]
    /\ UNCHANGED <<rows, cols, ships_dict, enemy_board, hit_stack, registered>>

get_remaining_ships ==
    /\ caller' = [caller EXCEPT !.ships = ReturnedShips]
    /\ last' = [op |-> "get_remaining_ships", args |-> << >>, ret |-> ReturnedShips,
                via |-> "none", raised |-> FALSE]
    /\ UNCHANGED <<rows, cols, ships_dict, enemy_board, hit_stack, registered>>

(* ------------------------ writes made by the caller --------------------- *)

\* item assignments the caller makes on the objects it holds
MaxCallerWrites == 1

\* the values written, a sample of what a caller can assign
CallerStates == {"?", "M", "X"}

CallerCounts == {0, 2}

\* b[y][x] = state on the board the caller was handed
CallerWritesBoard(x, y, state) ==
    /\ caller.writes < MaxCallerWrites
    /\ caller.board.kind # "none"
    /\ IF caller.board.kind = "alias"
       THEN /\ enemy_board' = SetCell(enemy_board, x, y, state)
            /\ caller' = [caller EXCEPT !.writes = @ + 1]
       ELSE /\ caller' = [caller EXCEPT !.writes = @ + 1,
                                        !.board = CopyOf(caller.board.from,
                                                        SetCell(caller.board.val, x, y, state))]
            /\ UNCHANGED enemy_board
    /\ last' = [op |-> "caller_write", args |-> <<x, y, state>>, ret |-> << >>,
                via |-> "none", raised |-> FALSE]
    /\ UNCHANGED <<rows, cols, ships_dict, hit_stack, registered>>

\* d[ship_id] = count on the dict the caller passed in or was handed
CallerWritesShips(ship_id, count) ==
    /\ caller.writes < MaxCallerWrites
    /\ caller.ships.kind # "none"
    /\ IF caller.ships.kind = "alias"
       THEN /\ ships_dict' = [ships_dict EXCEPT ![ship_id] = count]
            /\ caller' = [caller EXCEPT !.writes = @ + 1]
       ELSE /\ caller' = [caller EXCEPT !.writes = @ + 1,
                                        !.ships = CopyOf(caller.ships.from,
                                                        [caller.ships.val EXCEPT ![ship_id] = count])]
            /\ UNCHANGED ships_dict
    /\ last' = [op |-> "caller_write", args |-> <<ship_id, count>>, ret |-> << >>,
                via |-> "none", raised |-> FALSE]
    /\ UNCHANGED <<rows, cols, enemy_board, hit_stack, registered>>

(* ----------------------------- specification ---------------------------- *)

Next ==
    \/ get_next_attack
    \/ \E x \in 0 .. cols - 1 : \E y \in 0 .. rows - 1 :
          \E is_hit \in BOOLEAN : \E is_sunk \in BOOLEAN :
              register_attack(x, y, is_hit, is_sunk)
    \/ all_ships_sunk

Spec == Init /\ [][Next]_vars

\* the calls of Next and the two accessors that hand out objects
NextAccessors == Next \/ get_enemy_board \/ get_remaining_ships

SpecAccessors == Init /\ [][NextAccessors]_vars

\* the calls of NextAccessors and the caller writing to what it holds
NextCaller ==
    \/ NextAccessors
    \/ \E x \in 0 .. cols - 1 : \E y \in 0 .. rows - 1 :
          \E state \in CallerStates : CallerWritesBoard(x, y, state)
    \/ \E ship_id \in DOMAIN ships_dict :
          \E count \in CallerCounts : CallerWritesShips(ship_id, count)

SpecCaller == Init /\ [][NextCaller]_vars

TypeOK ==
    /\ \E c \in Configs : rows = c[1] /\ cols = c[2] /\ DOMAIN ships_dict = DOMAIN c[3]
    /\ \A y \in 0 .. rows - 1 : \A x \in 0 .. cols - 1 :
          enemy_board[y][x] \in {"?", "M", "H", "S", "X"}
    /\ \A i \in 1 .. Len(hit_stack) : InBounds(hit_stack[i][1], hit_stack[i][2])

(* ------------------------- vocabulary of the claims --------------------- *)

Cells == (0 .. cols - 1) \X (0 .. rows - 1)

CellState(board, c) == board[c[2]][c[1]]

UnknownCells(board) == { c \in Cells : CellState(board, c) = "?" }

EvenCells(S) == { c \in S : (c[1] + c[2]) % 2 = 0 }

\* the element of a non-empty set of cells that comes first in row-major order
RowMajorFirst(S) ==
    CHOOSE c \in S : \A d \in S : c[2] < d[2] \/ (c[2] = d[2] /\ c[1] <= d[1])

\* positions of the stack entries whose cell is still Unknown
ValidEntries(board, stack) ==
    { i \in 1 .. Len(stack) : CellState(board, stack[i]) = "?" }

MaxOf(S) == CHOOSE m \in S : \A n \in S : n <= m

IsGet(l) == l.op = "get_next_attack"

IsRegister(l) == l.op = "register_attack"

IsSunkEvent(l) == IsRegister(l) /\ l.args[3] /\ l.args[4]

IsPlainHit(l) == IsRegister(l) /\ l.args[3] /\ ~l.args[4]

(* -------------------------------- C1 ------------------------------------ *)

\* C1: whenever get_next_attack has returned while some cell is Unknown, the
\* returned value is a coordinate inside the board whose cell is Unknown
\* (get_next_attack does not change the board, so the cell's state after the
\* call is its state at call time).
C1_NoRepeat ==
    (IsGet(last) /\ UnknownCells(enemy_board) # {}) =>
        /\ Len(last.ret) = 2
        /\ last.ret \in Cells
        /\ CellState(enemy_board, last.ret) = "?"

\* a call answered from the follow-up stack on a board with resolved cells
C1_Witness ==
    /\ IsGet(last) /\ last.via = "stack"
    /\ last.ret \in UnknownCells(enemy_board)
    /\ \E c \in Cells : CellState(enemy_board, c) \in {"M", "H", "S", "X"}

(* -------------------------------- C2 ------------------------------------ *)

\* C2: a get_next_attack step taken while the stack holds an entry whose cell
\* is Unknown returns the most recently pushed such entry and leaves exactly
\* the entries below it on the stack.
C2_PopUntilValid ==
    [][ (IsGet(last') /\ ValidEntries(enemy_board, hit_stack) # {}) =>
            LET i == MaxOf(ValidEntries(enemy_board, hit_stack))
            IN  /\ last'.ret = hit_stack[i]
                /\ hit_stack' = SubSeq(hit_stack, 1, i - 1) ]_vars

(* -------------------------------- C3 ------------------------------------ *)

\* C3: a get_next_attack step taken while no stack entry's cell is Unknown
\* and some parity-even cell is Unknown returns the first Unknown parity-even
\* cell in row-major order.
C3_ParityPreference ==
    [][ ( /\ IsGet(last')
          /\ ValidEntries(enemy_board, hit_stack) = {}
          /\ EvenCells(UnknownCells(enemy_board)) # {} ) =>
            last'.ret = RowMajorFirst(EvenCells(UnknownCells(enemy_board))) ]_vars

\* a hunt-mode answer that had to skip resolved parity-even cells
C3_Witness ==
    /\ IsGet(last) /\ last.via = "parity"
    /\ last.ret = RowMajorFirst(EvenCells(UnknownCells(enemy_board)))
    /\ last.ret # <<0, 0>>

(* -------------------------------- C4 ------------------------------------ *)

\* C4: a get_next_attack step taken while no stack entry's cell is Unknown,
\* no parity-even cell is Unknown and some cell is Unknown returns the first
\* Unknown cell in row-major order.
C4_Fallback ==
    [][ ( /\ IsGet(last')
          /\ ValidEntries(enemy_board, hit_stack) = {}
          /\ EvenCells(UnknownCells(enemy_board)) = {}
          /\ UnknownCells(enemy_board) # {} ) =>
            last'.ret = RowMajorFirst(UnknownCells(enemy_board)) ]_vars

\* a fallback answer with more than one Unknown cell to choose from
C4_Witness ==
    /\ IsGet(last) /\ last.via = "any"
    /\ EvenCells(UnknownCells(enemy_board)) = {}
    /\ Cardinality(UnknownCells(enemy_board)) >= 2
    /\ last.ret = RowMajorFirst(UnknownCells(enemy_board))

(* -------------------------------- C5 ------------------------------------ *)

\* the entries of a sequence of coordinates that are inside the board and
\* Unknown in board, in the order of the sequence
UnknownInBounds(board, cs) ==
    SelectSeq(cs, LAMBDA c : c \in Cells /\ CellState(board, c) = "?")

AllUnknown(board) == UnknownCells(board) = Cells

\* C5 as stated: a non-sunk hit pushes the Unknown in-bounds neighbours in
\* the order right, down, left, up; a non-sunk hit at (2,2) on an all-Unknown
\* 5x5 board pushes (3,2),(2,3),(1,2),(2,1) and the next get_next_attack
\* returns (2,1).
C5_RightDownLeftUp ==
    [][ /\ IsPlainHit(last') =>
            LET x == last'.args[1]
                y == last'.args[2]
            IN  hit_stack' = hit_stack \o
                    UnknownInBounds(enemy_board,
                        << <<x + 1, y>>, <<x, y + 1>>, <<x - 1, y>>, <<x, y - 1>> >>)
        /\ ( /\ rows = 5 /\ cols = 5 /\ AllUnknown(enemy_board)
             /\ IsRegister(last') /\ last'.args = <<2, 2, TRUE, FALSE>> ) =>
            hit_stack' = << <<3, 2>>, <<2, 3>>, <<1, 2>>, <<2, 1>> >>
        /\ ( /\ rows = 5 /\ cols = 5 /\ registered = 1
             /\ IsRegister(last) /\ last.args = <<2, 2, TRUE, FALSE>>
             /\ IsGet(last') ) =>
            last'.ret = <<2, 1>> ]_vars

\* C5 (amended): a non-sunk hit pushes the Unknown in-bounds neighbours in
\* the order down (col,row+1), right (col+1,row), up (col,row-1), left
\* (col-1,row); a non-sunk hit at (2,2) on an all-Unknown 5x5 board pushes
\* (2,3),(3,2),(2,1),(1,2) in that order and the next get_next_attack
\* returns (1,2).
C5_DownRightUpLeft ==
    [][ /\ IsPlainHit(last') =>
            LET x == last'.args[1]
                y == last'.args[2]
            IN  hit_stack' = hit_stack \o
                    UnknownInBounds(enemy_board,
                        << <<x, y + 1>>, <<x + 1, y>>, <<x, y - 1>>, <<x - 1, y>> >>)
        /\ ( /\ rows = 5 /\ cols = 5 /\ AllUnknown(enemy_board)
             /\ IsRegister(last') /\ last'.args = <<2, 2, TRUE, FALSE>> ) =>
            hit_stack' = << <<2, 3>>, <<3, 2>>, <<2, 1>>, <<1, 2>> >>
        /\ ( /\ rows = 5 /\ cols = 5 /\ registered = 1
             /\ IsRegister(last) /\ last.args = <<2, 2, TRUE, FALSE>>
             /\ IsGet(last') ) =>
            last'.ret = <<1, 2>> ]_vars

\* the 5x5 scenario after the hit at (2,2) and the following get_next_attack
C5_Witness ==
    /\ rows = 5 /\ cols = 5 /\ registered = 1
    /\ CellState(enemy_board, <<2, 2>>) = "H"
    /\ UnknownCells(enemy_board) = Cells \ { <<2, 2>> }
    /\ IsGet(last) /\ last.via = "stack" /\ last.ret = <<1, 2>>
    /\ hit_stack = << <<2, 3>>, <<3, 2>>, <<2, 1>> >>

(* -------------------------------- C6 ------------------------------------ *)

RECURSIVE SumOver(_, _)
SumOver(d, ids) ==
    IF ids = {} THEN 0
    ELSE LET k == CHOOSE k \in ids : TRUE IN d[k] + SumOver(d, ids \ {k})

FleetSum(d) == SumOver(d, DOMAIN d)

\* C6: no fleet count is ever negative; no step increases the sum of the
\* counts; a register_attack with hit and sunk taken while the sum is
\* positive decreases it by exactly 1; every step that is not a register_attack
\* with hit and sunk leaves it unchanged.
C6_FleetMonotone ==
    /\ [](\A id \in DOMAIN ships_dict : ships_dict[id] >= 0)
    /\ [][ /\ FleetSum(ships_dict') <= FleetSum(ships_dict)
           /\ (IsSunkEvent(last') /\ FleetSum(ships_dict) > 0) =>
                  FleetSum(ships_dict') = FleetSum(ships_dict) - 1
           /\ ~IsSunkEvent(last') => FleetSum(ships_dict') = FleetSum(ships_dict) ]_vars

\* a first sunk event on the two-entry fleet has just consumed one unit
C6_Witness ==
    /\ IsSunkEvent(last) /\ registered = 1
    /\ DOMAIN ships_dict = {1, 3}
    /\ FleetSum(ships_dict) = 2

(* -------------------------------- C7 ------------------------------------ *)

PositiveIds(d) == { id \in DOMAIN d : d[id] > 0 }

MinOf(S) == CHOOSE m \in S : \A n \in S : m <= n

\* C7: a register_attack with hit and sunk taken while some count is
\* positive decrements the entry with the smallest identifier among the
\* positive ones by exactly 1 and leaves every other entry unchanged.
C7_DecrementPolicy ==
    [][ (IsSunkEvent(last') /\ PositiveIds(ships_dict) # {}) =>
            LET m == MinOf(PositiveIds(ships_dict))
            IN  /\ DOMAIN ships_dict' = DOMAIN ships_dict
                /\ ships_dict'[m] = ships_dict[m] - 1
                /\ \A id \in DOMAIN ships_dict \ {m} :
                       ships_dict'[id] = ships_dict[id] ]_vars

\* a second sunk event that skipped the exhausted identifier 1
C7_Witness ==
    /\ IsSunkEvent(last) /\ registered = 2
    /\ DOMAIN ships_dict = {1, 3}
    /\ ships_dict[1] = 0 /\ ships_dict[3] = 1

(* -------------------------------- C8 ------------------------------------ *)

\* C8: all_ships_sunk returns true exactly when every fleet count is 0; on a
\* fresh 3x3 tracker with fleet {1:1} get_next_attack returns (0,0); after
\* (0,0) is then registered as hit and sunk the fleet mapping is {1:0} and
\* all_ships_sunk returns true.
C8_AllSunk ==
    /\ [](last.op = "all_ships_sunk" =>
              (last.ret <=> \A id \in DOMAIN ships_dict : ships_dict[id] = 0))
    /\ [][ /\ ( /\ rows = 3 /\ cols = 3 /\ registered = 0
                /\ ships_dict = (1 :> 1) /\ IsGet(last') ) =>
               last'.ret = <<0, 0>>
           /\ ( /\ rows = 3 /\ cols = 3 /\ registered = 0
                /\ ships_dict = (1 :> 1)
                /\ IsRegister(last') /\ last'.args = <<0, 0, TRUE, TRUE>> ) =>
               ships_dict' = (1 :> 0)
           /\ ( /\ rows = 3 /\ cols = 3 /\ registered = 1
                /\ DOMAIN ships_dict = {1}
                /\ IsRegister(last) /\ last.args = <<0, 0, TRUE, TRUE>>
                /\ last'.op = "all_ships_sunk" ) =>
               last'.ret = TRUE ]_vars

\* the 3x3 scenario after (0,0) was sunk and all_ships_sunk was asked
C8_Witness ==
    /\ rows = 3 /\ cols = 3 /\ registered = 1
    /\ CellState(enemy_board, <<0, 0>>) = "S"
    /\ ships_dict = (1 :> 0)
    /\ last.op = "all_ships_sunk" /\ last.ret = TRUE

(* ------------------------------ C9, C10 --------------------------------- *)

Adjacent(c, d) ==
    \/ (c[1] = d[1] /\ (c[2] = d[2] + 1 \/ c[2] = d[2] - 1))
    \/ (c[2] = d[2] /\ (c[1] = d[1] + 1 \/ c[1] = d[1] - 1))

\* the orthogonally-connected set of Hit/Sunk cells of board that contains S
RECURSIVE Grow(_, _)
Grow(board, S) ==
    LET T == S \cup { c \in Cells : /\ CellState(board, c) \in {"H", "S"}
                                   /\ \E s \in S : Adjacent(c, s) }
    IN  IF T = S THEN S ELSE Grow(board, T)

Component(board, c) == Grow(board, {c})

\* C9: at a register_attack with hit and sunk at a cell, the ship set the
\* flood fill discovers is the whole orthogonally-connected set of Hit/Sunk
\* cells containing that cell (the cell itself counted as Sunk), and every
\* in-bounds orthogonal neighbour of any tile of the set that lies outside
\* the set and was Unknown before the call is Eliminated after it.
C9_Perimeter ==
    [][ IsSunkEvent(last') =>
            LET c     == <<last'.args[1], last'.args[2]>>
                sunk  == SetCell(enemy_board, c[1], c[2], "S")
                tiles == Component(sunk, c)
            IN  /\ ShipTiles(sunk, c[1], c[2]) = tiles
                /\ \A t \in tiles : \A n \in Cells \ tiles :
                       (Adjacent(n, t) /\ CellState(enemy_board, n) = "?") =>
                           CellState(enemy_board', n) = "X" ]_vars

\* a sunk event completing a ship of two tiles: a cell next to the tile hit
\* earlier, and not next to the reported cell, has been Eliminated
C9_Witness ==
    /\ IsSunkEvent(last) /\ registered = 2
    /\ LET c     == <<last.args[1], last.args[2]>>
           tiles == Component(enemy_board, c)
       IN  /\ Cardinality(tiles) = 2
           /\ \E n \in Cells \ tiles :
                 /\ CellState(enemy_board, n) = "X"
                 /\ ~Adjacent(n, c)
                 /\ \E t \in tiles : Adjacent(n, t)

\* C10: after a register_attack with hit and sunk, every tile of the
\* discovered ship set is in state Sunk.
C10_ShipTilesSunk ==
    IsSunkEvent(last) =>
        \A t \in Component(enemy_board, <<last.args[1], last.args[2]>>) :
            CellState(enemy_board, t) = "S"

(* ---------------------------- driver protocol --------------------------- *)

\* The game loop of a single sequential caller: ask for a cell, fire, report
\* the result for exactly that cell, repeat while a cell is Unknown.  The
\* outcome is any hit/sunk pair in which sunk implies hit.  Played to the end
\* on the boards of at most SmallArea cells.
DriverInit == Init /\ rows * cols <= SmallArea

DriverGet ==
    /\ ~IsGet(last)
    /\ UnknownCells(enemy_board) # {}
    /\ get_next_attack

DriverReport ==
    /\ IsGet(last)
    /\ \E is_hit \in BOOLEAN : \E is_sunk \in BOOLEAN :
          /\ is_sunk => is_hit
          /\ RegisterAttackBody(last.ret[1], last.ret[2], is_hit, is_sunk)

DriverNext == DriverGet \/ DriverReport

SpecDriver == DriverInit /\ [][DriverNext]_vars

\* every call returns (single-threaded, synchronous, no suspension points),
\* so the loop keeps taking its next step while it has one
SpecDriverFair == DriverInit /\ [][DriverNext]_vars /\ WF_vars(DriverNext)

(* -------------------------------- C11 ----------------------------------- *)

\* C11: under the driver protocol a cell becomes Eliminated only from
\* Unknown, and a sunk event leaves every Miss cell a Miss.
C11_EliminatedOnlyFromUnknown ==
    [][ /\ \A c \in Cells :
              (CellState(enemy_board', c) = "X" /\ CellState(enemy_board, c) # "X") =>
                  CellState(enemy_board, c) = "?"
        /\ IsSunkEvent(last') =>
              \A c \in Cells : CellState(enemy_board, c) = "M" =>
                                   CellState(enemy_board', c) = "M" ]_vars

(* -------------------------------- C18 ----------------------------------- *)

\* C18: under the driver protocol, a get_next_attack step that directly
\* follows the report of a non-sunk hit at a cell with an Unknown in-bounds
\* orthogonal neighbour is answered from the follow-up stack with a cell
\* orthogonally adjacent to the hit: the last of its Unknown neighbours in
\* the push order down, right, up, left.
C18_TargetMode ==
    [][ ( /\ IsPlainHit(last) /\ IsGet(last')
          /\ \E n \in UnknownCells(enemy_board) :
                Adjacent(n, <<last.args[1], last.args[2]>>) ) =>
            LET x == last.args[1]
                y == last.args[2]
                pushed == UnknownInBounds(enemy_board,
                              << <<x, y + 1>>, <<x + 1, y>>, <<x, y - 1>>, <<x - 1, y>> >>)
            IN  /\ last'.via = "stack"
                /\ Adjacent(last'.ret, <<x, y>>)
                /\ last'.ret = pushed[Len(pushed)] ]_vars

\* the answer that follows the first report, a non-sunk hit: a neighbour of
\* the hit and not the cell the hunt would have chosen
C18_Witness ==
    /\ registered = 1 /\ IsGet(last) /\ last.via = "stack"
    /\ \E h \in Cells : CellState(enemy_board, h) = "H" /\ Adjacent(last.ret, h)
    /\ EvenCells(UnknownCells(enemy_board)) # {}
    /\ last.ret # RowMajorFirst(EvenCells(UnknownCells(enemy_board)))

(* -------------------------------- C20 ----------------------------------- *)

\* C20: under the driver protocol every report strictly decreases the number
\* of Unknown cells, no step makes a cell Unknown again, the reports made and
\* the Unknown cells left never exceed rows * cols together, and the loop
\* reaches a state with no Unknown cell, where it stays.
C20_Progress ==
    /\ [][ /\ UnknownCells(enemy_board') \subseteq UnknownCells(enemy_board)
           /\ IsRegister(last') =>
                 Cardinality(UnknownCells(enemy_board')) <
                     Cardinality(UnknownCells(enemy_board)) ]_vars
    /\ [](registered + Cardinality(UnknownCells(enemy_board)) <= rows * cols)
    /\ <>[](UnknownCells(enemy_board) = {})

\* a finished game that needed fewer reports than the board has cells
C20_Witness ==
    /\ UnknownCells(enemy_board) = {}
    /\ IsRegister(last)
    /\ registered >= 1 /\ registered < rows * cols

(* -------------------------------- C12 ----------------------------------- *)

\* C12: a register_attack with is_hit false, whatever is_sunk, sets the
\* reported cell to Miss and leaves every other cell, the follow-up stack and
\* the fleet mapping unchanged.
C12_MissFrame ==
    [][ (IsRegister(last') /\ ~last'.args[3]) =>
            LET c == <<last'.args[1], last'.args[2]>>
            IN  /\ CellState(enemy_board', c) = "M"
                /\ \A n \in Cells \ {c} :
                       CellState(enemy_board', n) = CellState(enemy_board, n)
                /\ hit_stack' = hit_stack
                /\ ships_dict' = ships_dict ]_vars

\* a miss reported with the sunk flag set, while follow-up entries are
\* stacked and the fleet is untouched
C12_Witness ==
    /\ IsRegister(last) /\ ~last.args[3] /\ last.args[4]
    /\ CellState(enemy_board, <<last.args[1], last.args[2]>>) = "M"
    /\ hit_stack # << >>
    /\ \A id \in DOMAIN ships_dict : ships_dict[id] > 0

(* -------------------------------- C13 ----------------------------------- *)

\* C13: a register_attack on a cell that is not Unknown raises and leaves
\* the belief grid, the follow-up stack and the fleet mapping unchanged.
C13_ReReportFailsFast ==
    [][ ( /\ IsRegister(last')
          /\ CellState(enemy_board, <<last'.args[1], last'.args[2]>>) # "?" ) =>
            /\ last'.raised
            /\ enemy_board' = enemy_board
            /\ hit_stack' = hit_stack
            /\ ships_dict' = ships_dict ]_vars

(* -------------------------------- C14 ----------------------------------- *)

\* C14: a register_attack with hit and sunk taken while every fleet count is
\* 0 raises.
C14_ExhaustedFleetFailsFast ==
    [][ ( /\ IsSunkEvent(last')
          /\ \A id \in DOMAIN ships_dict : ships_dict[id] = 0 ) =>
            last'.raised ]_vars

(* -------------------------------- C17 ----------------------------------- *)

\* C17: a register_attack with hit and sunk changes no cell other than the
\* reported cell and the cells orthogonally adjacent to a tile of the
\* discovered ship set.
C17_SingleStep ==
    [][ IsSunkEvent(last') =>
            LET c     == <<last'.args[1], last'.args[2]>>
                tiles == Component(SetCell(enemy_board, c[1], c[2], "S"), c)
            IN  \A n \in Cells \ {c} :
                    (\A t \in tiles : ~Adjacent(n, t)) =>
                        CellState(enemy_board', n) = CellState(enemy_board, n) ]_vars

\* a sunk event with an Unknown cell two steps along a row or column from
\* the reported cell, behind an Eliminated one
C17_Witness ==
    /\ IsSunkEvent(last)
    /\ LET c == <<last.args[1], last.args[2]>>
       IN  \E d \in { <<1, 0>>, <<0, 1>>, <<-1, 0>>, <<0, -1>> } :
              LET n1 == <<c[1] + d[1], c[2] + d[2]>>
                  n2 == <<c[1] + 2 * d[1], c[2] + 2 * d[2]>>
              IN  /\ n2 \in Cells
                  /\ CellState(enemy_board, n1) = "X"
                  /\ CellState(enemy_board, n2) = "?"
                  /\ Component(enemy_board, c) = {c}

(* -------------------------------- C19 ----------------------------------- *)

\* C19: a register_attack with hit and sunk leaves every cell other than the
\* reported one that was Hit or Sunk in the state it had.
C19_HitsKept ==
    [][ IsSunkEvent(last') =>
            \A n \in Cells \ { <<last'.args[1], last'.args[2]>> } :
                CellState(enemy_board, n) \in {"H", "S"} =>
                    CellState(enemy_board', n) = CellState(enemy_board, n) ]_vars

\* a sunk event next to a tile hit earlier, which is still Hit
C19_Witness ==
    /\ IsSunkEvent(last)
    /\ \E t \in Cells :
          /\ Adjacent(t, <<last.args[1], last.args[2]>>)
          /\ CellState(enemy_board, t) = "H"

(* -------------------------------- C15 ----------------------------------- *)

\* the value the caller sees through a handle on an object whose current
\* value in the tracker is obj
View(h, obj) == IF h.kind = "alias" THEN obj ELSE h.val

IsCallerWrite(l) == l.op = "caller_write"

\* C15: a write by the caller to the board or the fleet mapping it holds
\* changes neither the tracker's belief grid nor its fleet mapping, and an
\* operation of the tracker changes no value an accessor returned earlier.
C15_ReadOnlyViews ==
    [][ /\ IsCallerWrite(last') =>
              (enemy_board' = enemy_board /\ ships_dict' = ships_dict)
        /\ (~IsCallerWrite(last') /\ caller.board.kind # "none") =>
              View(caller.board, enemy_board') = View(caller.board, enemy_board)
        /\ ( /\ ~IsCallerWrite(last') /\ caller.ships.kind # "none"
             /\ caller.ships.from = "get_remaining_ships" ) =>
              View(caller.ships, ships_dict') = View(caller.ships, ships_dict) ]_vars

(* -------------------------------- C16 ----------------------------------- *)

IsReadCall(l) ==
    l.op \in {"get_next_attack", "get_enemy_board", "get_remaining_ships",
              "all_ships_sunk"}

\* C16: only register_attack changes the belief grid or the fleet mapping:
\* get_next_attack, get_enemy_board, get_remaining_ships and all_ships_sunk
\* leave every cell and every count as they were; get_next_attack leaves the
\* follow-up stack a prefix of what it was and the three accessors leave it
\* unchanged, as they leave the dimensions.
C16_ReadersFrame ==
    [][ /\ (enemy_board' # enemy_board \/ ships_dict' # ships_dict) =>
              IsRegister(last')
        /\ IsReadCall(last') =>
              /\ enemy_board' = enemy_board
              /\ ships_dict' = ships_dict
              /\ rows' = rows /\ cols' = cols
        /\ IsGet(last') =>
              /\ Len(hit_stack') <= Len(hit_stack)
              /\ hit_stack' = SubSeq(hit_stack, 1, Len(hit_stack'))
        /\ (IsReadCall(last') /\ ~IsGet(last')) => hit_stack' = hit_stack ]_vars

\* the board handed out after a hit and a get_next_attack that popped one of
\* the entries the hit had stacked
C16_Witness ==
    /\ last.op = "get_enemy_board"
    /\ caller.board.kind = "alias"
    /\ registered = 1
    /\ hit_stack # << >>
    /\ \E c \in Cells : CellState(enemy_board, c) = "H" /\
          Cardinality({ n \in UnknownCells(enemy_board) : Adjacent(n, c) }) > Len(hit_stack)

====
